---------------------------- MODULE Spec2Model ----------------------------
(***************************************************************************)
(* Model of the page-range / page-order parsers (helpers.py) and of the    *)
(* PDF build handler build_pdf_from_order (app.py).                        *)
(*                                                                         *)
(* A Python str is a sequence of one-character strings.  A PDF page is a   *)
(* record; a PDF file is the sequence of the pages serialized into it.     *)
(***************************************************************************)
EXTENDS Integers, Sequences, FiniteSets, TLC

VARIABLES call, text, ret, build, fs

vars == <<call, text, ret, build, fs>>

-----------------------------------------------------------------------------
(* Bounds of the model *)

\* longest text handed to parse_ranges
MaxRangeLen == 5
\* longest text handed to parse_final_order on its own
MaxOrderLen == 5
\* most tokens in an order string handed to build_pdf_from_order
MaxTokens == 3
\* build requests in flight at once
NumReqs == 2

RangeAlphabet == {"0", "3", "5", "-", ",", " "}
OrderAlphabet == {"a", "B", "1", "3", "-", ",", ":", " "}

StringsOver(alphabet, n) == UNION {[1..k -> alphabet] : k \in 0..n}

-----------------------------------------------------------------------------
(* Characters, str methods and the three regular expressions of helpers.py *)

Digit == {"0", "1", "2", "3", "4", "5", "6", "7", "8", "9"}

DigitVal(c) ==
    CASE c = "0" -> 0 [] c = "1" -> 1 [] c = "2" -> 2 [] c = "3" -> 3
      [] c = "4" -> 4 [] c = "5" -> 5 [] c = "6" -> 6 [] c = "7" -> 7
      [] c = "8" -> 8 [] c = "9" -> 9

\* the whitespace str.strip() removes
Whitespace == {" "}

\* SEP_RE = [ ,;]+
SepChars == {" ", ",", ";"}

\* the letters PAGE_RE's class [AB] accepts under re.I
TagChars == {"A", "B", "a", "b"}

Max2(a, b) == IF a >= b THEN a ELSE b

Min2(a, b) == IF a <= b THEN a ELSE b

\* str.isdigit() / the regex \d+ / [0-9]+ on a whole string
IsDigits(s) == Len(s) > 0 /\ \A k \in 1..Len(s) : s[k] \in Digit

\* int(s) for a string of decimal digits
RECURSIVE ToInt(_)
ToInt(s) ==
    IF Len(s) = 0 THEN 0
    ELSE 10 * ToInt(SubSeq(s, 1, Len(s) - 1)) + DigitVal(s[Len(s)])

\* str.upper() on a tag letter
Upper(c) == CASE c = "a" -> "A" [] c = "b" -> "B" [] OTHER -> c

\* str.lower() on one character of a file name
LowerChar(c) ==
    CASE c = "P" -> "p" [] c = "D" -> "d" [] c = "F" -> "f" [] c = "M" -> "m"
      [] OTHER -> c

\* str.strip()
Strip(s) ==
    LET keep == {k \in 1..Len(s) : s[k] \notin Whitespace}
    IN  IF keep = {} THEN <<>>
        ELSE LET lo == CHOOSE k \in keep : \A j \in keep : k <= j
                 hi == CHOOSE k \in keep : \A j \in keep : k >= j
             IN  SubSeq(s, lo, hi)

\* SEP_RE.split(s): the pieces between the maximal runs of separators,
\* empty pieces at either end included
RECURSIVE SepSplitFrom(_, _, _, _)
SepSplitFrom(s, k, cur, acc) ==
    IF k > Len(s) THEN Append(acc, cur)
    ELSE IF s[k] \in SepChars
         THEN IF k > 1 /\ s[k - 1] \in SepChars
              THEN SepSplitFrom(s, k + 1, cur, acc)
              ELSE SepSplitFrom(s, k + 1, <<>>, Append(acc, cur))
         ELSE SepSplitFrom(s, k + 1, Append(cur, s[k]), acc)

SepSplit(s) == SepSplitFrom(s, 1, <<>>, <<>>)

\* positions of the '-' that split s into two non-empty digit strings
DashSplits(s) ==
    {k \in 1..Len(s) : /\ s[k] = "-"
                       /\ IsDigits(SubSeq(s, 1, k - 1))
                       /\ IsDigits(SubSeq(s, k + 1, Len(s)))}

\* RANGE_RE.fullmatch(part)
RangeMatch(part) == DashSplits(part) # {}

\* the two groups of RANGE_RE, or the two halves of spec.split("-")
SpanStart(s) == LET k == CHOOSE d \in DashSplits(s) : TRUE
                IN  ToInt(SubSeq(s, 1, k - 1))

SpanEnd(s) == LET k == CHOOSE d \in DashSplits(s) : TRUE
              IN  ToInt(SubSeq(s, k + 1, Len(s)))

\* range(lo, hi + 1) as a list
IntRange(lo, hi) == [k \in 1..Max2(hi - lo + 1, 0) |-> lo + k - 1]

-----------------------------------------------------------------------------
(* helpers.parse_ranges *)

Returned(v) == [kind |-> "return", val |-> v]

ValueError(tok) == [kind |-> "ValueError", token |-> tok]

Pending == [kind |-> "pending"]

\* a span without the swap of a reversed pair
RangeSpanNoSwap(s, e) == IntRange(s, e)

\* lines 20-22: swap a reversed pair, then range(s, e + 1)
RangeSpan(s, e) == IF s > e THEN IntRange(e, s) ELSE IntRange(s, e)

\* sorted(list(set(pages)))
SortedSet(pages) ==
    LET s    == SortSeq(pages, LAMBDA x, y : x < y)
        idx  == [k \in 1..Len(s) |-> k]
        kept == SelectSeq(idx, LAMBDA k : k = 1 \/ s[k] # s[k - 1])
    IN  [k \in 1..Len(kept) |-> s[kept[k]]]

\* lines 14-26: the loop over the split parts
RECURSIVE RangesLoop(_, _, _)
RangesLoop(parts, k, pages) ==
    IF k > Len(parts) THEN Returned(SortedSet(pages))
    ELSE LET part == parts[k]
         IN  IF part = <<>> THEN RangesLoop(parts, k + 1, pages)
             ELSE IF RangeMatch(part)
                  THEN RangesLoop(parts, k + 1,
                           pages \o RangeSpan(SpanStart(part), SpanEnd(part)))
             ELSE IF IsDigits(part)
                  THEN RangesLoop(parts, k + 1, Append(pages, ToInt(part)))
             ELSE ValueError(part)

parse_ranges(rng) ==
    IF rng = <<>> THEN Returned(<<>>)
    ELSE RangesLoop(SepSplit(Strip(rng)), 1, <<>>)

-----------------------------------------------------------------------------
(* helpers.parse_final_order *)

\* PAGE_RE.fullmatch(token), PAGE_RE = ([AB])[:]?([0-9]+(?:-[0-9]+)?) with re.I
PageSpecOf(token) ==
    IF Len(token) >= 2 /\ token[2] = ":" THEN SubSeq(token, 3, Len(token))
    ELSE SubSeq(token, 2, Len(token))

PageMatch(token) ==
    /\ Len(token) >= 2
    /\ token[1] \in TagChars
    /\ \/ IsDigits(PageSpecOf(token))
       \/ RangeMatch(PageSpecOf(token))

\* a span without the swap of a reversed pair
OrderSpanNoSwap(src, s, e) == [k \in 1..Max2(e - s + 1, 0) |-> <<src, s + k - 1>>]

\* lines 40-43: swap a reversed pair, then [(src, p) for p in range(s, e + 1)]
OrderSpan(src, s, e) ==
    LET lo == IF s > e THEN e ELSE s
        hi == IF s > e THEN s ELSE e
    IN  [k \in 1..(hi - lo + 1) |-> <<src, lo + k - 1>>]

\* lines 31-45: the loop over the split tokens
RECURSIVE OrderLoop(_, _, _)
OrderLoop(tokens, k, out) ==
    IF k > Len(tokens) THEN Returned(out)
    ELSE LET token == tokens[k]
         IN  IF token = <<>> THEN OrderLoop(tokens, k + 1, out)
             ELSE IF ~PageMatch(token) THEN ValueError(token)
             ELSE LET src  == Upper(token[1])
                      spec == PageSpecOf(token)
                  IN  IF \E j \in 1..Len(spec) : spec[j] = "-"
                      THEN OrderLoop(tokens, k + 1,
                               out \o OrderSpan(src, SpanStart(spec), SpanEnd(spec)))
                      ELSE OrderLoop(tokens, k + 1, Append(out, <<src, ToInt(spec)>>))

parse_final_order(order_str) == OrderLoop(SepSplit(Strip(order_str)), 1, <<>>)

-----------------------------------------------------------------------------
(* The documents, uploads and file names a build request is given *)

None == "None"

Tags == {"A", "B"}

\* page sizes (width, height) of the two uploaded documents
PageSizes(path) ==
    IF path = "a.pdf" THEN <<(<<2, 3>>), (<<1, 1>>), (<<2, 2>>)>>
    ELSE <<(<<3, 1>>), (<<1, 2>>), (<<2, 4>>)>>

\* PdfReader(pdf_path).pages
PdfReader(path) ==
    [k \in 1..Len(PageSizes(path)) |->
        [doc |-> path, num |-> k, w |-> PageSizes(path)[k][1], h |-> PageSizes(path)[k][2]]]

UploadsA == {None, "a.pdf"}

UploadsB == {None, "b.pdf"}

Layouts == {"Sequential", "2-Up"}

FileNames == {<<"m">>, <<"m", ".", "p", "d", "f">>, <<"m", ".", "P", "D", "F">>}

TokenPool ==
    { <<"A", "1">>, <<"b", "2">>, <<"A", "1", "-", "2">>, <<"B", "3">>,
      <<"A", "4">>, <<"b", "0">>, <<"C", "1">> }

BlankInputs == { <<>>, <<" ">>, <<",">>, <<" ", ",", " ">> }

RECURSIVE JoinTokens(_, _)
JoinTokens(ts, n) ==
    IF n = 0 THEN <<>>
    ELSE IF n = 1 THEN ts[1]
    ELSE JoinTokens(ts, n - 1) \o <<",">> \o ts[n]

OrderInputs ==
    BlankInputs \cup
    {JoinTokens(ts, Len(ts)) : ts \in UNION {[1..n -> TokenPool] : n \in 1..MaxTokens}}

\* the order strings two concurrent requests are given
ConcInputs ==
    { <<>>, <<",">>, <<"C", "1">>, <<"A", "4">>, <<"A", "1">>,
      <<"A", "1", "-", "2", ",", "B", "3">> }

Reqs == 1..NumReqs

EmptyDict == [t \in {} |-> <<>>]

EmptyFs == [p \in {} |-> <<>>]

-----------------------------------------------------------------------------
(* app.build_pdf_from_order, one action per step of the handler *)

\* line 6-8
get_file_path(file_obj) == file_obj

Running == [kind |-> "running"]

\* raise gr.Error(...), by the message raised
GrError(what, src, page) == [kind |-> "gr.Error", what |-> what, src |-> src, page |-> page]

\* gr.Warning(...); return None
WarnedNone == [kind |-> "return", val |-> <<>>, isNone |-> TRUE, warning |-> TRUE]

ReturnedPath(path) == [kind |-> "return", val |-> path, isNone |-> FALSE, warning |-> FALSE]

NewBuild(a, b, o, l, f) ==
    [pc |-> "start",
     pdf_a_obj |-> a, pdf_b_obj |-> b, order_str |-> o, layout |-> l,
     output_filename |-> f,
     writer |-> <<>>, readers |-> EmptyDict, pdf_paths |-> [t \in Tags |-> None],
     page_spec |-> <<>>, k |-> 0, all_pages |-> <<>>, new_writer |-> <<>>,
     i |-> 0, tmp_filepath |-> <<>>, outcome |-> Running]

IdleBuild == [NewBuild(None, None, <<>>, "Sequential", <<>>) EXCEPT !.pc = "idle"]

SetBuild(r, b) == build' = [build EXCEPT ![r] = b]

\* seq[index] with Python's list indexing: a negative index counts from the end
PyIndex(seq, index) == IF index < 0 THEN seq[Len(seq) + index + 1] ELSE seq[index + 1]

\* a range check that lets page 0 through
InRangeFromZero(page, npages) == 0 <= page /\ page <= npages

\* lines 80 and 99: 0 < page <= len(readers[src].pages)
InRange(page, npages) == 0 < page /\ page <= npages

\* a Begin that creates the output file before anything was parsed
BeginOpensFile(r) ==
    LET b == build[r]
    IN  /\ b.pc = "start"
        /\ SetBuild(r, [b EXCEPT !.pc = IF Strip(b.order_str) = <<>> THEN "raised" ELSE "parse",
                                 !.outcome = IF Strip(b.order_str) = <<>>
                                             THEN GrError("empty", None, 0) ELSE Running])
        /\ fs' = [p \in DOMAIN fs \cup {b.output_filename} |->
                     IF p = b.output_filename THEN <<>> ELSE fs[p]]
        /\ UNCHANGED <<call, text, ret>>

\* lines 61-66: fresh writer, readers and paths; an empty order field raises
Begin(r) ==
    LET b  == build[r]
        b1 == [b EXCEPT !.writer = <<>>, !.readers = EmptyDict,
                        !.pdf_paths = [t \in Tags |-> IF t = "A" THEN get_file_path(b.pdf_a_obj)
                                                      ELSE get_file_path(b.pdf_b_obj)]]
    IN  /\ b.pc = "start"
        /\ IF Strip(b.order_str) = <<>>
           THEN SetBuild(r, [b1 EXCEPT !.pc = "raised", !.outcome = GrError("empty", None, 0)])
           ELSE SetBuild(r, [b1 EXCEPT !.pc = "parse"])
        /\ UNCHANGED <<call, text, ret, fs>>

\* lines 68-71: parse the order; a ValueError becomes a gr.Error
ParseOrder(r) ==
    LET b   == build[r]
        res == parse_final_order(b.order_str)
    IN  /\ b.pc = "parse"
        /\ IF res.kind = "ValueError"
           THEN SetBuild(r, [b EXCEPT !.pc = "raised", !.outcome = GrError("invalid", None, 0)])
           ELSE SetBuild(r, [b EXCEPT !.pc = "resolve", !.page_spec = res.val, !.k = 1])
        /\ UNCHANGED <<call, text, ret, fs>>

\* writer.add_page that skips a page the writer already holds
AddPageDedup(writer, page) ==
    IF \E j \in 1..Len(writer) : writer[j] = page THEN writer ELSE Append(writer, page)

\* PdfWriter.add_page(page)
AddPage(writer, page) == Append(writer, page)

\* lines 73-83: one iteration of the resolve loop
Resolve(r) ==
    LET b    == build[r]
        src  == b.page_spec[b.k][1]
        page == b.page_spec[b.k][2]
        path == b.pdf_paths[src]
        rds  == IF src \in DOMAIN b.readers THEN b.readers
                ELSE [t \in DOMAIN b.readers \cup {src} |->
                         IF t = src THEN PdfReader(path) ELSE b.readers[t]]
    IN  /\ b.pc = "resolve"
        /\ b.k <= Len(b.page_spec)
        /\ IF src \notin DOMAIN b.readers /\ path = None
           THEN SetBuild(r, [b EXCEPT !.pc = "raised", !.outcome = GrError("missing", src, 0)])
           ELSE IF ~InRange(page, Len(rds[src]))
           THEN SetBuild(r, [b EXCEPT !.pc = "raised", !.readers = rds,
                                      !.outcome = GrError("range", src, page)])
           ELSE SetBuild(r, [b EXCEPT !.readers = rds, !.k = b.k + 1,
                                      !.writer = AddPage(b.writer, PyIndex(rds[src], page - 1))])
        /\ UNCHANGED <<call, text, ret, fs>>

\* lines 85-89: after the loop, no pages gives a warning and None
CheckPages(r) ==
    LET b == build[r]
    IN  /\ b.pc = "resolve"
        /\ b.k > Len(b.page_spec)
        /\ IF b.writer = <<>>
           THEN SetBuild(r, [b EXCEPT !.pc = "done", !.outcome = WarnedNone])
           ELSE IF b.layout = "2-Up"
           THEN SetBuild(r, [b EXCEPT !.pc = "collect", !.new_writer = <<>>, !.all_pages = <<>>])
           ELSE SetBuild(r, [b EXCEPT !.pc = "name"])
        /\ UNCHANGED <<call, text, ret, fs>>

\* lines 93-101: collect every page again, with the same checks
RECURSIVE CollectLoop(_, _, _, _, _)
CollectLoop(page_spec, n, pdf_paths, readers, all_pages) ==
    IF n > Len(page_spec)
    THEN [err |-> Running, readers |-> readers, all_pages |-> all_pages]
    ELSE LET src  == page_spec[n][1]
             page == page_spec[n][2]
             path == pdf_paths[src]
             rds  == IF src \in DOMAIN readers THEN readers
                     ELSE [t \in DOMAIN readers \cup {src} |->
                              IF t = src THEN PdfReader(path) ELSE readers[t]]
         IN  IF path = None
             THEN [err |-> GrError("missing", src, 0), readers |-> readers,
                   all_pages |-> all_pages]
             ELSE IF ~InRange(page, Len(rds[src]))
             THEN [err |-> GrError("range", src, page), readers |-> rds,
                   all_pages |-> all_pages]
             ELSE CollectLoop(page_spec, n + 1, pdf_paths, rds,
                              Append(all_pages, PyIndex(rds[src], page - 1)))

Collect(r) ==
    LET b   == build[r]
        res == CollectLoop(b.page_spec, 1, b.pdf_paths, b.readers, <<>>)
    IN  /\ b.pc = "collect"
        /\ IF res.err # Running
           THEN SetBuild(r, [b EXCEPT !.pc = "raised", !.readers = res.readers,
                                      !.outcome = res.err])
           ELSE SetBuild(r, [b EXCEPT !.pc = "pair", !.readers = res.readers,
                                      !.all_pages = res.all_pages, !.i = 0])
        /\ UNCHANGED <<call, text, ret, fs>>

\* PageObject.create_blank_page(width, height)
create_blank_page(width, height) ==
    [doc |-> "blank", num |-> 0, w |-> width, h |-> height, parts |-> <<>>]

\* bool(x) of a tuple: true unless the tuple is empty
Truthy(tuple) == Len(tuple) > 0

\* pypdf's PageObject.merge_page(page2, expand=False, over=True): page2's
\* content is drawn onto self untranslated, and when expand is true the
\* media box of self grows to cover page2's.  The second positional
\* argument is expand.
merge_page(self, page2, expand) ==
    [self EXCEPT !.parts = Append(self.parts, [page |-> page2, x |-> 0, y |-> 0]),
                 !.w = IF expand THEN Max2(self.w, page2.w) ELSE self.w,
                 !.h = IF expand THEN Max2(self.h, page2.h) ELSE self.h]

\* lines 106-128: the page composed of p1 and p2
Compose(p1, p2) ==
    LET p1_width        == p1.w
        p1_height       == p1.h
        p2_width        == p2.w
        p2_height       == p2.h
        combined_height == Max2(p1_height, p2_height)
        combined_width  == p1_width + p2_width
        new_page        == create_blank_page(combined_width, combined_height)
        left            == merge_page(new_page, p1, FALSE)
    IN  merge_page(left, p2, Truthy(<<p1_width, 0>>))

\* lines 103-132: one iteration of the pairing loop, or its exit
Pair(r) ==
    LET b  == build[r]
        p1 == PyIndex(b.all_pages, b.i)
    IN  /\ b.pc = "pair"
        /\ IF b.i >= Len(b.all_pages)
           THEN SetBuild(r, [b EXCEPT !.pc = "name", !.writer = b.new_writer])
           ELSE IF b.i + 1 < Len(b.all_pages)
           THEN SetBuild(r, [b EXCEPT !.i = b.i + 2,
                    !.new_writer = AddPage(b.new_writer,
                                           Compose(p1, PyIndex(b.all_pages, b.i + 1)))])
           ELSE SetBuild(r, [b EXCEPT !.i = b.i + 2, !.new_writer = AddPage(b.new_writer, p1)])
        /\ UNCHANGED <<call, text, ret, fs>>

\* str.lower().endswith(".pdf")
EndsWithPdf(name) ==
    /\ Len(name) >= 4
    /\ [k \in 1..4 |-> LowerChar(name[Len(name) - 4 + k])] = <<".", "p", "d", "f">>

\* lines 134-138: the output path in the shared temporary directory
NameOutput(r) ==
    LET b    == build[r]
        name == IF EndsWithPdf(b.output_filename) THEN b.output_filename
                ELSE b.output_filename \o <<".", "p", "d", "f">>
    IN  /\ b.pc = "name"
        /\ SetBuild(r, [b EXCEPT !.pc = "open", !.output_filename = name,
                                 !.tmp_filepath = name])
        /\ UNCHANGED <<call, text, ret, fs>>

\* line 139: open(tmp_filepath, "wb") creates or truncates the file
OpenOutput(r) ==
    LET b == build[r]
    IN  /\ b.pc = "open"
        /\ fs' = [p \in DOMAIN fs \cup {b.tmp_filepath} |->
                     IF p = b.tmp_filepath THEN <<>> ELSE fs[p]]
        /\ SetBuild(r, [b EXCEPT !.pc = "write"])
        /\ UNCHANGED <<call, text, ret>>

\* the file after data is written at offset 0 of it
WriteAtStart(old, data) ==
    IF Len(old) > Len(data) THEN data \o SubSeq(old, Len(data) + 1, Len(old)) ELSE data

\* lines 140-141: writer.write(f), close, return the path
WriteOutput(r) ==
    LET b == build[r]
    IN  /\ b.pc = "write"
        /\ fs' = [fs EXCEPT ![b.tmp_filepath] = WriteAtStart(fs[b.tmp_filepath], b.writer)]
        /\ SetBuild(r, [b EXCEPT !.pc = "done", !.outcome = ReturnedPath(b.tmp_filepath)])
        /\ UNCHANGED <<call, text, ret>>

BuildStep(r) ==
    \/ Begin(r)
    \/ ParseOrder(r)
    \/ Resolve(r)
    \/ CheckPages(r)
    \/ Collect(r)
    \/ Pair(r)
    \/ NameOutput(r)
    \/ OpenOutput(r)
    \/ WriteOutput(r)

BuildInputs(orders) ==
    {NewBuild(a, b, o, l, f) :
        a \in UploadsA, b \in UploadsB, o \in orders, l \in Layouts, f \in FileNames}

\* one build request
Init ==
    /\ call = "build_pdf_from_order"
    /\ text = <<>>
    /\ ret = Pending
    /\ \E nb \in BuildInputs(OrderInputs) :
          build = [r \in Reqs |-> IF r = 1 THEN nb ELSE IdleBuild]
    /\ fs = EmptyFs

Next == \E r \in Reqs : BuildStep(r)

Spec == Init /\ [][Next]_vars

\* concurrent build requests
InitConc ==
    /\ call = "build_pdf_from_order"
    /\ text = <<>>
    /\ ret = Pending
    /\ build \in [Reqs -> BuildInputs(ConcInputs)]
    /\ fs = EmptyFs

SpecConc == InitConc /\ [][Next]_vars

-----------------------------------------------------------------------------
(* The parsers on their own *)

InitRanges ==
    /\ call = "parse_ranges"
    /\ text \in StringsOver(RangeAlphabet, MaxRangeLen)
    /\ ret = Pending
    /\ build = [r \in Reqs |-> IdleBuild]
    /\ fs = EmptyFs

CallParseRanges ==
    /\ call = "parse_ranges"
    /\ ret = Pending
    /\ ret' = parse_ranges(text)
    /\ UNCHANGED <<call, text, build, fs>>

NextRanges == CallParseRanges

SpecRanges == InitRanges /\ [][NextRanges]_vars

InitOrder ==
    /\ call = "parse_final_order"
    /\ text \in StringsOver(OrderAlphabet, MaxOrderLen)
    /\ ret = Pending
    /\ build = [r \in Reqs |-> IdleBuild]
    /\ fs = EmptyFs

CallParseFinalOrder ==
    /\ call = "parse_final_order"
    /\ ret = Pending
    /\ ret' = parse_final_order(text)
    /\ UNCHANGED <<call, text, build, fs>>

NextOrder == CallParseFinalOrder

SpecOrder == InitOrder /\ [][NextOrder]_vars

-----------------------------------------------------------------------------
(* The grammars of the two texts, stated on the text itself *)

\* the maximal runs of non-separator characters of s, as <<first, last>>
TokenRuns(s) ==
    {r \in (1..Len(s)) \X (1..Len(s)) :
        /\ r[1] <= r[2]
        /\ \A k \in r[1]..r[2] : s[k] \notin SepChars
        /\ r[1] = 1 \/ s[r[1] - 1] \in SepChars
        /\ r[2] = Len(s) \/ s[r[2] + 1] \in SepChars}

\* the tokens of s in order of appearance
TokenSeq(s) ==
    LET runs == TokenRuns(s)
        nth(k) == CHOOSE r \in runs : Cardinality({q \in runs : q[1] < r[1]}) = k - 1
    IN  [k \in 1..Cardinality(runs) |-> SubSeq(s, nth(k)[1], nth(k)[2])]

\* DIGITS | DIGITS '-' DIGITS
ValidRangeToken(t) ==
    \/ IsDigits(t)
    \/ \E k \in 2..(Len(t) - 1) :
          t[k] = "-" /\ IsDigits(SubSeq(t, 1, k - 1)) /\ IsDigits(SubSeq(t, k + 1, Len(t)))

ValidRangeText(s) == \A k \in 1..Len(TokenSeq(s)) : ValidRangeToken(TokenSeq(s)[k])

\* the pages a valid range token names
RangeTokenPages(t) ==
    IF IsDigits(t) THEN {ToInt(t)}
    ELSE LET k == CHOOSE d \in 2..(Len(t) - 1) : t[d] = "-"
             s == ToInt(SubSeq(t, 1, k - 1))
             e == ToInt(SubSeq(t, k + 1, Len(t)))
         IN  Min2(s, e)..Max2(s, e)

\* TAG [':'] DIGITS ('-' DIGITS)?
TokenBody(t) == IF Len(t) >= 2 /\ t[2] = ":" THEN SubSeq(t, 3, Len(t)) ELSE SubSeq(t, 2, Len(t))

ValidOrderToken(t) ==
    /\ Len(t) >= 2
    /\ t[1] \in {"A", "a", "B", "b"}
    /\ ValidRangeToken(TokenBody(t))

ValidOrderText(s) == \A k \in 1..Len(TokenSeq(s)) : ValidOrderToken(TokenSeq(s)[k])

TokenTag(t) == IF t[1] \in {"A", "a"} THEN "A" ELSE "B"

\* the pairs a valid order token expands to, ascending
TokenExpansion(t) ==
    LET pages == RangeTokenPages(TokenBody(t))
        lo    == CHOOSE p \in pages : \A q \in pages : p <= q
    IN  [k \in 1..Cardinality(pages) |-> <<TokenTag(t), lo + k - 1>>]

RECURSIVE ConcatExpansions(_, _)
ConcatExpansions(toks, n) ==
    IF n = 0 THEN <<>>
    ELSE ConcatExpansions(toks, n - 1) \o TokenExpansion(toks[n])

RECURSIVE SumSpanSizes(_, _)
SumSpanSizes(toks, n) ==
    IF n = 0 THEN 0
    ELSE SumSpanSizes(toks, n - 1) + Cardinality(RangeTokenPages(TokenBody(toks[n])))

StrictlyAscending(v) == \A k \in 1..(Len(v) - 1) : v[k] < v[k + 1]

SeqRange(v) == {v[k] : k \in 1..Len(v)}

IsReversedSpan(t) ==
    \E k \in 2..(Len(t) - 1) :
        /\ t[k] = "-" /\ IsDigits(SubSeq(t, 1, k - 1)) /\ IsDigits(SubSeq(t, k + 1, Len(t)))
        /\ ToInt(SubSeq(t, 1, k - 1)) > ToInt(SubSeq(t, k + 1, Len(t)))

-----------------------------------------------------------------------------
(* Claims about the parsers *)

\* C1: for an order text whose tokens all match the order grammar,
\* parse_final_order returns the concatenation, in token order, of each
\* token's expansion (one pair for a single page, the ascending pairs
\* min(s,e)..max(s,e) for a span); repeats are kept, nothing is sorted, and
\* the length is the sum of the span sizes.
C1_OrderIsConcatenation ==
    (call = "parse_final_order" /\ ret # Pending /\ ValidOrderText(text)) =>
        /\ ret.kind = "return"
        /\ ret.val = ConcatExpansions(TokenSeq(text), Len(TokenSeq(text)))
        /\ Len(ret.val) = SumSpanSizes(TokenSeq(text), Len(TokenSeq(text)))
        /\ text = <<"a", "1", ",", "a", "1">> => ret.val = <<(<<"A", 1>>), (<<"A", 1>>)>>

\* C1 witness: a text with a reversed span and a repeated pair was parsed
C1_Witness ==
    /\ call = "parse_final_order"
    /\ ret.kind = "return"
    /\ \E k \in 1..Len(TokenSeq(text)) : IsReversedSpan(TokenBody(TokenSeq(text)[k]))
    /\ Len(ret.val) >= 3

\* C2: for a valid range text parse_ranges returns a strictly ascending,
\* duplicate-free list whose elements are exactly the pages its tokens
\* name; "5-3" and "3-5" both give [3,4,5].
C2_RangesSortedUnion ==
    (call = "parse_ranges" /\ ret # Pending) =>
        /\ ValidRangeText(text) =>
              /\ ret.kind = "return"
              /\ StrictlyAscending(ret.val)
              /\ SeqRange(ret.val) =
                    UNION {RangeTokenPages(TokenSeq(text)[k]) : k \in 1..Len(TokenSeq(text))}
        /\ text \in {<<"5", "-", "3">>, <<"3", "-", "5">>} => ret = Returned(<<3, 4, 5>>)

\* C2 witness: a reversed span was parsed next to another token
C2_Witness ==
    /\ call = "parse_ranges"
    /\ ret.kind = "return"
    /\ Len(TokenSeq(text)) >= 2
    /\ \E k \in 1..Len(TokenSeq(text)) : IsReversedSpan(TokenSeq(text)[k])
    /\ Len(ret.val) >= 3

\* C9: every page parse_ranges returns is >= 1 (a token naming page 0 is
\* rejected).
C9_RangePagesPositive ==
    (call = "parse_ranges" /\ ret.kind = "return") =>
        \A k \in 1..Len(ret.val) : ret.val[k] >= 1

-----------------------------------------------------------------------------
(* Claims about build_pdf_from_order *)

Started(b) == b.pc # "idle"

\* the order string parsed: the handler is past lines 68-71
Parsed(b) ==
    /\ b.pc \notin {"idle", "start", "parse"}
    /\ ~(b.pc = "raised" /\ b.outcome.what \in {"empty", "invalid"})

UploadOf(b, tag) == IF tag = "A" THEN b.pdf_a_obj ELSE b.pdf_b_obj

PageCount(path) == Len(PageSizes(path))

\* the token names no uploaded document, or a page outside 1..pageCount
Offending(b, tok) ==
    \/ UploadOf(b, tok[1]) = None
    \/ tok[2] < 1
    \/ tok[2] > PageCount(UploadOf(b, tok[1]))

OffendingAt(b, toks) == {n \in 1..Len(toks) : Offending(b, toks[n])}

FirstOffending(b, toks) ==
    CHOOSE n \in OffendingAt(b, toks) : \A m \in OffendingAt(b, toks) : n <= m

ErrorOf(b, tok) ==
    IF UploadOf(b, tok[1]) = None THEN GrError("missing", tok[1], 0)
    ELSE GrError("range", tok[1], tok[2])

\* the page of the uploaded document a token names
SourcePage(b, tok) == PdfReader(UploadOf(b, tok[1]))[tok[2]]

ReturnedAPath(b) == b.pc = "done" /\ b.outcome.kind = "return" /\ ~b.outcome.isNone

\* C3: after a successful parse the build fails with the missing-source
\* error of the first token whose tag has no upload, or the out-of-range
\* error of the first token whose page is outside 1..pageCount, whichever
\* token comes first; it gets past resolving only when no token offends.
C3_ResolveErrors ==
    \A r \in Reqs :
        LET b == build[r]
        IN  Parsed(b) =>
              IF OffendingAt(b, b.page_spec) # {}
              THEN /\ b.pc \in {"resolve", "raised"}
                   /\ b.pc = "resolve" => b.k <= FirstOffending(b, b.page_spec)
                   /\ b.pc = "raised" =>
                         b.outcome = ErrorOf(b, b.page_spec[FirstOffending(b, b.page_spec)])
              ELSE b.pc # "raised"

\* C3 witness: page 0 was refused after an earlier token resolved, with a
\* later token naming a missing source
C3_Witness ==
    \E r \in Reqs :
        LET b == build[r]
        IN  /\ b.pc = "raised"
            /\ b.outcome.what = "range"
            /\ b.outcome.page = 0
            /\ b.k = 2
            /\ Len(b.page_spec) = 3
            /\ UploadOf(b, b.page_spec[3][1]) = None

\* C4: in Sequential mode an order that parses and resolves to N >= 1 pages
\* is written as exactly N pages, output page i being the page the i-th
\* token names.
C4_SequentialRoundTrip ==
    \A r \in Reqs :
        LET b   == build[r]
            exp == ConcatExpansions(TokenSeq(b.order_str), Len(TokenSeq(b.order_str)))
        IN  ( /\ Started(b)
              /\ b.layout = "Sequential"
              /\ ValidOrderText(b.order_str)
              /\ Len(exp) >= 1
              /\ OffendingAt(b, exp) = {} ) =>
                 /\ b.pc # "raised"
                 /\ b.pc = "done" =>
                       /\ ReturnedAPath(b)
                       /\ b.outcome.val \in DOMAIN fs
                       /\ fs[b.outcome.val] = [n \in 1..Len(exp) |-> SourcePage(b, exp[n])]

\* C4 witness: a written Sequential output of three pages that repeats a page
C4_Witness ==
    \E r \in Reqs :
        LET b == build[r]
        IN  /\ ReturnedAPath(b)
            /\ b.layout = "Sequential"
            /\ b.outcome.val \in DOMAIN fs
            /\ Len(fs[b.outcome.val]) = 3
            /\ fs[b.outcome.val][1] = fs[b.outcome.val][2]
            /\ fs[b.outcome.val][3].doc = "b.pdf"

\* the composed page the 2-Up layout is specified to make of p1 and p2
SideBySide(p1, p2) ==
    [doc |-> "blank", num |-> 0, w |-> p1.w + p2.w, h |-> Max2(p1.h, p2.h),
     parts |-> << [page |-> p1, x |-> 0, y |-> 0], [page |-> p2, x |-> p1.w, y |-> 0] >>]

\* C5: in 2-Up mode N >= 1 resolved pages give ceil(N/2) output pages; each
\* pair is a page of width w1 + w2 and height max(h1, h2) with the first
\* page at (0,0) and the second at (w1, 0); an odd last page passes through
\* unchanged.
C5_TwoUpLayout ==
    \A r \in Reqs :
        LET b == build[r]
            N == Len(b.page_spec)
            p == [n \in 1..N |-> SourcePage(b, b.page_spec[n])]
        IN  (ReturnedAPath(b) /\ b.layout = "2-Up") =>
              LET out == fs[b.outcome.val]
              IN  /\ Len(out) = (N + 1) \div 2
                  /\ \A n \in 1..(N \div 2) : out[n] = SideBySide(p[2 * n - 1], p[2 * n])
                  /\ N % 2 = 1 => out[(N + 1) \div 2] = p[N]

\* C6: an order string with no token at all (empty, blank or separators
\* only) ends in the empty-output outcome: nothing is written and the
\* outcome is not of the kind a parse or resolve error has.
C6_EmptyOutputDistinct ==
    \A r \in Reqs :
        LET b == build[r]
        IN  (b.pc \in {"done", "raised"} /\ TokenSeq(b.order_str) = <<>>) =>
              /\ b.outcome.kind # "gr.Error"
              /\ b.outcome = WarnedNone
              /\ fs = EmptyFs

Failed(b) ==
    \/ b.pc = "raised"
    \/ b.pc = "done" /\ b.outcome.kind = "return" /\ b.outcome.isNone

\* C7: a build that fails (invalid token, missing source, page out of
\* range, empty output), in either layout, has written no output file and
\* returns no path; the file exists only once parsing, resolving and the
\* layout are over.
C7_NoOutputOnFailure ==
    \A r \in Reqs :
        LET b == build[r]
        IN  Started(b) =>
              /\ Failed(b) => fs = EmptyFs /\ ~ReturnedAPath(b)
              /\ fs # EmptyFs => b.pc \in {"write", "done"}

\* C7 witness: a 2-Up build failed on its third token and no file exists
C7_Witness ==
    \E r \in Reqs :
        LET b == build[r]
        IN  /\ b.pc = "raised"
            /\ b.layout = "2-Up"
            /\ b.outcome.what \in {"missing", "range"}
            /\ b.k = 3
            /\ Len(b.writer) >= 2
            /\ fs = EmptyFs

\* C8: with concurrent requests, the path a request returned holds exactly
\* the pages of that request's own order, whatever the other request does.
C8_RequestsIsolated ==
    \A r \in Reqs :
        LET b == build[r]
        IN  ReturnedAPath(b) =>
              /\ b.outcome.val \in DOMAIN fs
              /\ fs[b.outcome.val] = b.writer

\* C10: no document is opened before the order string has parsed, and no
\* page is appended to the writer before every token has been resolved; a
\* run failing on a token with a resolution error has assembled nothing.
C10_StagesOrdered ==
    \A r \in Reqs :
        LET b == build[r]
        IN  Started(b) =>
              /\ DOMAIN b.readers # {} => Parsed(b)
              /\ (b.pc = "resolve" /\ b.k <= Len(b.page_spec)) => b.writer = <<>>
              /\ (b.pc = "raised" /\ b.outcome.what \in {"missing", "range"}) =>
                     b.writer = <<>>

=============================================================================
